---- MODULE Spec2Model ----
(***************************************************************************)
(* Construction company record keeping (src/construction_company.py):      *)
(* DesignPlan, HousingProject, RoadProject and the ConstructionCompany     *)
(* registry.  Python object references are modelled as positions in the    *)
(* registry's lists (entities are only ever created by the registry's      *)
(* factory methods, which append).  A project's design_plan is None or     *)
(* the position of the referenced DesignPlan in design_plans.              *)
(* Strings built with f-strings are sequences of string pieces whose       *)
(* concatenation is the Python string.                                     *)
(***************************************************************************)
EXTENDS Integers, Sequences, FiniteSets, TLC

\* ------------------------------------------------------------------ bounds
MaxPlans == 2
MaxHousing == 1
MaxRoads == 1
MaxItems == 1
MaxEntities == 3
MaxTime == 2
\* For the line-item lists explored on their own (SpecItems).
MaxLineItems == 2
MaxItemEntities == 2
\* For several projects of one class under one plan (SpecShared).
MaxSharedPlans == 1
MaxSharers == 2

\* ------------------------------------------------------------------ inputs
\* The plans a caller asks for: identifier and type.
PlanInputs == {<<"DP001", "housing">>, <<"DP002", "road">>, <<"DP003", "commercial">>}
Descriptions == {"Blueprint"}
Areas == {5000}
Costs == {250000}
SpecKeys == {"floors"}
SpecValues == {"2"}
WorkerCounts == {0, 25}
HousingIds == {"HP001"}
HousingNames == {"Greenview Apartments"}
HousingTypes == {"apartment"}
UnitCounts == {24}
RoadIds == {"RD001"}
RoadNames == {"Central Highway"}
RoadTypes == {"highway"}
Lengths == {15}
LaneCounts == {4}
SurfaceTypes == {"concrete"}
MaterialNames == {"cement"}
Quantities == {500}
Units == {"bags"}
EquipmentNames == {"excavator"}
CompanyNames == {"Premier Construction Ltd."}
\* The line items added where the order within a list is explored.
LineMaterials == {"cement", "steel"}
LineEquipment == {"excavator", "roller"}

\* Python's None, for the optional plan reference and the optional dates
\* (plan positions and clock readings are all >= 1).
None == 0

VARIABLES
    company_name,      \* ConstructionCompany.company_name
    design_plans,      \* ConstructionCompany.design_plans: list of DesignPlan
    housing_projects,  \* ConstructionCompany.housing_projects
    road_projects,     \* ConstructionCompany.road_projects
    total_workers,     \* ConstructionCompany.total_workers
    active_projects,   \* ConstructionCompany.active_projects
    clock,             \* the last reading of datetime.now()
    call,              \* the last method call: name, receiver, arguments
    ret,               \* what that call returned
    created,           \* history: the identifiers passed to each create_*
                       \* factory, in call order
    held               \* the caller's variable that keeps a get_details()
                       \* result (None until the caller keeps one)

registry == <<company_name, design_plans, housing_projects, road_projects,
              total_workers, active_projects>>
vars == <<company_name, design_plans, housing_projects, road_projects,
          total_workers, active_projects, clock, call, ret, created, held>>

\* ------------------------------------------------------------------ values
\* A returned str, dict, list or None.
Str(pieces) == [kind |-> "str", val |-> pieces]
Dict(d) == [kind |-> "dict", val |-> d]
List(l) == [kind |-> "list", val |-> l]
NoneRet == [kind |-> "None", val |-> <<>>]

\* datetime.strftime('%Y-%m-%d'): the day of a clock reading; two readings
\* fall on one day.
strftime_date(t) == ToString((t + 1) \div 2)

\* str(n) inside an f-string.
str(n) == ToString(n)

\* datetime.now(): the clock never runs backwards.
Now(t) == t \in clock..MaxTime /\ clock' = t

\* The callers' convention (spec section 7): a returned string that starts
\* with "Error: " reports a failure.
IsError(r) == r.kind = "str" /\ Len(r.val) > 0 /\ r.val[1] = "Error: "

\* Entities the registry holds.
Entities == Len(design_plans) + Len(housing_projects) + Len(road_projects)

Call(op, kind, self, args) == [op |-> op, kind |-> kind, self |-> self, args |-> args]

\* ------------------------------------------------------------------ DesignPlan
DesignPlan_init(plan_id, plan_type, description, area_sqft, estimated_cost, t) ==
    [plan_id |-> plan_id, plan_type |-> plan_type, description |-> description,
     area_sqft |-> area_sqft, estimated_cost |-> estimated_cost,
     created_date |-> t, approved |-> FALSE, specifications |-> <<>>]

\* dict[key] = value on a dict held as a function from its keys.
DictSet(d, key, value) ==
    [k \in (DOMAIN d) \cup {key} |-> IF k = key THEN value ELSE d[k]]

add_specification(p, key, value) ==
    /\ p \in DOMAIN design_plans
    /\ design_plans' = [design_plans EXCEPT ![p].specifications =
                            DictSet(@, key, value)]
    /\ call' = Call("add_specification", "plan", p, <<key, value>>)
    /\ ret' = NoneRet
    /\ UNCHANGED <<company_name, housing_projects, road_projects,
                   total_workers, active_projects, clock, created, held>>

\* Fault: approve_plan flips the flag instead of setting it.
approve_plan_toggle(p) ==
    /\ p \in DOMAIN design_plans
    /\ \E t \in 1..MaxTime :
        /\ Now(t)
        /\ design_plans' = [design_plans EXCEPT ![p].approved = ~@]
        /\ ret' = Str(<<"Plan ", design_plans[p].plan_id, " approved on ",
                        strftime_date(t)>>)
    /\ call' = Call("approve_plan", "plan", p, <<>>)
    /\ UNCHANGED <<company_name, housing_projects, road_projects,
                   total_workers, active_projects, created, held>>

\* Fault: approve_plan stamps the approval time over created_date.
approve_plan_restamp(p) ==
    /\ p \in DOMAIN design_plans
    /\ \E t \in 1..MaxTime :
        /\ Now(t)
        /\ design_plans' = [design_plans EXCEPT ![p].approved = TRUE,
                                                ![p].created_date = t]
        /\ ret' = Str(<<"Plan ", design_plans[p].plan_id, " approved on ",
                        strftime_date(t)>>)
    /\ call' = Call("approve_plan", "plan", p, <<>>)
    /\ UNCHANGED <<company_name, housing_projects, road_projects,
                   total_workers, active_projects, created, held>>

approve_plan(p) ==
    /\ p \in DOMAIN design_plans
    /\ \E t \in 1..MaxTime :
        /\ Now(t)
        /\ design_plans' = [design_plans EXCEPT ![p].approved = TRUE]
        /\ ret' = Str(<<"Plan ", design_plans[p].plan_id, " approved on ",
                        strftime_date(t)>>)
    /\ call' = Call("approve_plan", "plan", p, <<>>)
    /\ UNCHANGED <<company_name, housing_projects, road_projects,
                   total_workers, active_projects, created, held>>

\* The returned dict holds the plan's own specifications dict, not a copy:
\* the entry is the reference (the plan's position).
get_details_of(p) ==
    [plan_id |-> design_plans[p].plan_id,
     type |-> design_plans[p].plan_type,
     description |-> design_plans[p].description,
     area_sqft |-> design_plans[p].area_sqft,
     estimated_cost |-> design_plans[p].estimated_cost,
     approved |-> design_plans[p].approved,
     specifications |-> [ref |-> p],
     created_date |-> strftime_date(design_plans[p].created_date)]

get_details(p) ==
    /\ p \in DOMAIN design_plans
    /\ call' = Call("get_details", "plan", p, <<>>)
    /\ ret' = Dict(get_details_of(p))
    /\ UNCHANGED <<registry, clock, created, held>>

\* ------------------------------------------------------------------ HousingProject
HousingProject_init(project_id, project_name, housing_type, num_units) ==
    [project_id |-> project_id, project_name |-> project_name,
     housing_type |-> housing_type, num_units |-> num_units,
     design_plan |-> None, status |-> "planned", start_date |-> None,
     completion_date |-> None, materials |-> <<>>, workers_assigned |-> 0]

\* Faults: a check of assign_design_plan left out.
AssignNotApproved_skipped(plan) == FALSE
AssignWrongType_skipped(plan, expected) == FALSE

\* Fault: the type check of assign_design_plan turned round.
AssignWrongType_inverted(plan, expected) == plan.plan_type = expected

\* The two checks of assign_design_plan, in the order the code makes them.
\* expected is the plan type the project class accepts.
AssignNotApproved(plan) == ~plan.approved
AssignWrongType(plan, expected) == plan.plan_type # expected

\* Fault: a plan is stored only while the project holds none
\* (if self.design_plan is None: self.design_plan = design_plan).
HousingProject_assign_design_plan_once(h, p) ==
    /\ h \in DOMAIN housing_projects
    /\ p \in DOMAIN design_plans
    /\ call' = Call("assign_design_plan", "housing", h, <<p>>)
    /\ IF AssignNotApproved(design_plans[p])
       THEN /\ ret' = Str(<<"Error: ", "Design plan must be approved first">>)
            /\ UNCHANGED housing_projects
       ELSE IF AssignWrongType(design_plans[p], "housing")
       THEN /\ ret' = Str(<<"Error: ", "Design plan type '", design_plans[p].plan_type,
                            "' is not compatible with housing projects">>)
            /\ UNCHANGED housing_projects
       ELSE /\ housing_projects' =
                    IF housing_projects[h].design_plan = None
                    THEN [housing_projects EXCEPT ![h].design_plan = p]
                    ELSE housing_projects
            /\ ret' = Str(<<"Design plan ", design_plans[p].plan_id, " assigned to ",
                            housing_projects[h].project_name>>)
    /\ UNCHANGED <<company_name, design_plans, road_projects,
                   total_workers, active_projects, clock, created, held>>

\* Fault: the type check comes before the approval check.
HousingProject_assign_design_plan_typefirst(h, p) ==
    /\ h \in DOMAIN housing_projects
    /\ p \in DOMAIN design_plans
    /\ call' = Call("assign_design_plan", "housing", h, <<p>>)
    /\ IF AssignWrongType(design_plans[p], "housing")
       THEN /\ ret' = Str(<<"Error: ", "Design plan type '", design_plans[p].plan_type,
                            "' is not compatible with housing projects">>)
            /\ UNCHANGED housing_projects
       ELSE IF AssignNotApproved(design_plans[p])
       THEN /\ ret' = Str(<<"Error: ", "Design plan must be approved first">>)
            /\ UNCHANGED housing_projects
       ELSE /\ housing_projects' = [housing_projects EXCEPT ![h].design_plan = p]
            /\ ret' = Str(<<"Design plan ", design_plans[p].plan_id, " assigned to ",
                            housing_projects[h].project_name>>)
    /\ UNCHANGED <<company_name, design_plans, road_projects,
                   total_workers, active_projects, clock, created, held>>

HousingProject_assign_design_plan(h, p) ==
    /\ h \in DOMAIN housing_projects
    /\ p \in DOMAIN design_plans
    /\ call' = Call("assign_design_plan", "housing", h, <<p>>)
    /\ IF AssignNotApproved(design_plans[p])
       THEN /\ ret' = Str(<<"Error: ", "Design plan must be approved first">>)
            /\ UNCHANGED housing_projects
       ELSE IF AssignWrongType(design_plans[p], "housing")
       THEN /\ ret' = Str(<<"Error: ", "Design plan type '", design_plans[p].plan_type,
                            "' is not compatible with housing projects">>)
            /\ UNCHANGED housing_projects
       ELSE /\ housing_projects' = [housing_projects EXCEPT ![h].design_plan = p]
            /\ ret' = Str(<<"Design plan ", design_plans[p].plan_id, " assigned to ",
                            housing_projects[h].project_name>>)
    /\ UNCHANGED <<company_name, design_plans, road_projects,
                   total_workers, active_projects, clock, created, held>>

\* Fault: start_construction without the plan check.
CanStart_unchecked(project) == TRUE

\* if self.design_plan and self.design_plan.approved: a DesignPlan object is
\* truthy (the class defines neither __bool__ nor __len__), None is falsy.
CanStart(project) ==
    /\ project.design_plan # None
    /\ design_plans[project.design_plan].approved

\* Fault: start_construction stores the worker count before it checks the plan.
HousingProject_start_construction_eager(h, workers) ==
    /\ h \in DOMAIN housing_projects
    /\ call' = Call("start_construction", "housing", h, <<workers>>)
    /\ IF CanStart(housing_projects[h])
       THEN \E t \in 1..MaxTime :
            /\ Now(t)
            /\ housing_projects' = [housing_projects EXCEPT
                    ![h].status = "in_progress",
                    ![h].start_date = t,
                    ![h].workers_assigned = workers]
            /\ ret' = Str(<<"Construction started for ",
                            housing_projects[h].project_name, " with ",
                            str(workers), " workers">>)
       ELSE /\ ret' = Str(<<"Error: ",
                            "Approved design plan required to start construction">>)
            /\ housing_projects' = [housing_projects EXCEPT
                    ![h].workers_assigned = workers]
            /\ UNCHANGED clock
    /\ UNCHANGED <<company_name, design_plans, road_projects,
                   total_workers, active_projects, created, held>>

HousingProject_start_construction(h, workers) ==
    /\ h \in DOMAIN housing_projects
    /\ call' = Call("start_construction", "housing", h, <<workers>>)
    /\ IF CanStart(housing_projects[h])
       THEN \E t \in 1..MaxTime :
            /\ Now(t)
            /\ housing_projects' = [housing_projects EXCEPT
                    ![h].status = "in_progress",
                    ![h].start_date = t,
                    ![h].workers_assigned = workers]
            /\ ret' = Str(<<"Construction started for ",
                            housing_projects[h].project_name, " with ",
                            str(workers), " workers">>)
       ELSE /\ ret' = Str(<<"Error: ",
                            "Approved design plan required to start construction">>)
            /\ UNCHANGED <<housing_projects, clock>>
    /\ UNCHANGED <<company_name, design_plans, road_projects,
                   total_workers, active_projects, created, held>>

\* Fault: the new line is put at the front of the list (insert(0, ...)).
add_materials_front(h, material, quantity, unit) ==
    /\ h \in DOMAIN housing_projects
    /\ housing_projects' = [housing_projects EXCEPT ![h].materials =
            <<[material |-> material, quantity |-> quantity, unit |-> unit]>> \o @]
    /\ call' = Call("add_materials", "housing", h, <<material, str(quantity), unit>>)
    /\ ret' = NoneRet
    /\ UNCHANGED <<company_name, design_plans, road_projects,
                   total_workers, active_projects, clock, created, held>>

add_materials(h, material, quantity, unit) ==
    /\ h \in DOMAIN housing_projects
    /\ housing_projects' = [housing_projects EXCEPT ![h].materials =
            Append(@, [material |-> material, quantity |-> quantity, unit |-> unit])]
    /\ call' = Call("add_materials", "housing", h, <<material, str(quantity), unit>>)
    /\ ret' = NoneRet
    /\ UNCHANGED <<company_name, design_plans, road_projects,
                   total_workers, active_projects, clock, created, held>>

\* Fault: complete_project refuses a project that is not under construction.
HousingProject_complete_project_guarded(h) ==
    /\ h \in DOMAIN housing_projects
    /\ call' = Call("complete_project", "housing", h, <<>>)
    /\ IF housing_projects[h].status = "in_progress"
       THEN \E t \in 1..MaxTime :
            /\ Now(t)
            /\ housing_projects' = [housing_projects EXCEPT
                    ![h].status = "completed",
                    ![h].completion_date = t]
            /\ ret' = Str(<<"Housing project ", housing_projects[h].project_name,
                            " completed on ", strftime_date(t)>>)
       ELSE /\ ret' = Str(<<"Error: ", "Project is not in progress">>)
            /\ UNCHANGED <<housing_projects, clock>>
    /\ UNCHANGED <<company_name, design_plans, road_projects,
                   total_workers, active_projects, created, held>>

\* Fault: completion is carried by the plan, so every housing project that
\* holds the same plan is completed along with this one.
HousingProject_complete_project_sharers(h) ==
    /\ h \in DOMAIN housing_projects
    /\ \E t \in 1..MaxTime :
        /\ Now(t)
        /\ housing_projects' =
                [i \in DOMAIN housing_projects |->
                    IF \/ i = h
                       \/ /\ housing_projects[h].design_plan # None
                          /\ housing_projects[i].design_plan = housing_projects[h].design_plan
                    THEN [housing_projects[i] EXCEPT !.status = "completed",
                                                     !.completion_date = t]
                    ELSE housing_projects[i]]
        /\ ret' = Str(<<"Housing project ", housing_projects[h].project_name,
                        " completed on ", strftime_date(t)>>)
    /\ call' = Call("complete_project", "housing", h, <<>>)
    /\ UNCHANGED <<company_name, design_plans, road_projects,
                   total_workers, active_projects, created, held>>

HousingProject_complete_project(h) ==
    /\ h \in DOMAIN housing_projects
    /\ \E t \in 1..MaxTime :
        /\ Now(t)
        /\ housing_projects' = [housing_projects EXCEPT
                ![h].status = "completed",
                ![h].completion_date = t]
        /\ ret' = Str(<<"Housing project ", housing_projects[h].project_name,
                        " completed on ", strftime_date(t)>>)
    /\ call' = Call("complete_project", "housing", h, <<>>)
    /\ UNCHANGED <<company_name, design_plans, road_projects,
                   total_workers, active_projects, created, held>>

HousingProject_get_project_info_of(h) ==
    [project_id |-> housing_projects[h].project_id,
     name |-> housing_projects[h].project_name,
     type |-> housing_projects[h].housing_type,
     units |-> housing_projects[h].num_units,
     status |-> housing_projects[h].status,
     workers |-> housing_projects[h].workers_assigned,
     materials_count |-> Len(housing_projects[h].materials),
     has_design_plan |-> housing_projects[h].design_plan # None]

HousingProject_get_project_info(h) ==
    /\ h \in DOMAIN housing_projects
    /\ call' = Call("get_project_info", "housing", h, <<>>)
    /\ ret' = Dict(HousingProject_get_project_info_of(h))
    /\ UNCHANGED <<registry, clock, created, held>>

\* ------------------------------------------------------------------ RoadProject
DefaultLanes == 2

RoadProject_init(project_id, road_name, road_type, length_km) ==
    [project_id |-> project_id, road_name |-> road_name, road_type |-> road_type,
     length_km |-> length_km, design_plan |-> None, status |-> "planned",
     lanes |-> DefaultLanes, surface_type |-> "asphalt", start_date |-> None,
     completion_date |-> None, workers_assigned |-> 0, equipment |-> <<>>]

RoadProject_assign_design_plan(r, p) ==
    /\ r \in DOMAIN road_projects
    /\ p \in DOMAIN design_plans
    /\ call' = Call("assign_design_plan", "road", r, <<p>>)
    /\ IF AssignNotApproved(design_plans[p])
       THEN /\ ret' = Str(<<"Error: ", "Design plan must be approved first">>)
            /\ UNCHANGED road_projects
       ELSE IF AssignWrongType(design_plans[p], "road")
       THEN /\ ret' = Str(<<"Error: ", "Design plan type '", design_plans[p].plan_type,
                            "' is not compatible with road projects">>)
            /\ UNCHANGED road_projects
       ELSE /\ road_projects' = [road_projects EXCEPT ![r].design_plan = p]
            /\ ret' = Str(<<"Design plan ", design_plans[p].plan_id, " assigned to ",
                            road_projects[r].road_name>>)
    /\ UNCHANGED <<company_name, design_plans, housing_projects,
                   total_workers, active_projects, clock, created, held>>

set_road_specs(r, lanes, surface_type) ==
    /\ r \in DOMAIN road_projects
    /\ road_projects' = [road_projects EXCEPT ![r].lanes = lanes,
                                              ![r].surface_type = surface_type]
    /\ call' = Call("set_road_specs", "road", r, <<str(lanes), surface_type>>)
    /\ ret' = NoneRet
    /\ UNCHANGED <<company_name, design_plans, housing_projects,
                   total_workers, active_projects, clock, created, held>>

\* Fault: a start date once recorded is kept
\* (self.start_date = self.start_date or datetime.now()).
RoadProject_start_construction_keepdate(r, workers) ==
    /\ r \in DOMAIN road_projects
    /\ call' = Call("start_construction", "road", r, <<workers>>)
    /\ IF CanStart(road_projects[r])
       THEN \E t \in 1..MaxTime :
            /\ Now(t)
            /\ road_projects' = [road_projects EXCEPT
                    ![r].status = "in_progress",
                    ![r].start_date = IF @ = None THEN t ELSE @,
                    ![r].workers_assigned = workers]
            /\ ret' = Str(<<"Road construction started for ",
                            road_projects[r].road_name, " with ",
                            str(workers), " workers">>)
       ELSE /\ ret' = Str(<<"Error: ",
                            "Approved design plan required to start construction">>)
            /\ UNCHANGED <<road_projects, clock>>
    /\ UNCHANGED <<company_name, design_plans, housing_projects,
                   total_workers, active_projects, created, held>>

RoadProject_start_construction(r, workers) ==
    /\ r \in DOMAIN road_projects
    /\ call' = Call("start_construction", "road", r, <<workers>>)
    /\ IF CanStart(road_projects[r])
       THEN \E t \in 1..MaxTime :
            /\ Now(t)
            /\ road_projects' = [road_projects EXCEPT
                    ![r].status = "in_progress",
                    ![r].start_date = t,
                    ![r].workers_assigned = workers]
            /\ ret' = Str(<<"Road construction started for ",
                            road_projects[r].road_name, " with ",
                            str(workers), " workers">>)
       ELSE /\ ret' = Str(<<"Error: ",
                            "Approved design plan required to start construction">>)
            /\ UNCHANGED <<road_projects, clock>>
    /\ UNCHANGED <<company_name, design_plans, housing_projects,
                   total_workers, active_projects, created, held>>

add_equipment(r, equipment_name, quantity) ==
    /\ r \in DOMAIN road_projects
    /\ road_projects' = [road_projects EXCEPT ![r].equipment =
            Append(@, [equipment |-> equipment_name, quantity |-> quantity])]
    /\ call' = Call("add_equipment", "road", r, <<equipment_name, str(quantity)>>)
    /\ ret' = NoneRet
    /\ UNCHANGED <<company_name, design_plans, housing_projects,
                   total_workers, active_projects, clock, created, held>>

\* Fault: maintenance may be scheduled again while in maintenance.
CanSchedule_lax(project) == project.status \in {"completed", "maintenance"}

\* Fault: maintenance may be scheduled as soon as construction has started.
CanSchedule_started(project) == project.status # "planned"

\* The status test of schedule_maintenance.
CanSchedule(project) == project.status = "completed"

schedule_maintenance(r) ==
    /\ r \in DOMAIN road_projects
    /\ call' = Call("schedule_maintenance", "road", r, <<>>)
    /\ IF CanSchedule(road_projects[r])
       THEN /\ road_projects' = [road_projects EXCEPT ![r].status = "maintenance"]
            /\ ret' = Str(<<"Maintenance scheduled for ", road_projects[r].road_name>>)
       ELSE /\ ret' = Str(<<"Error: ",
                            "Road must be completed before scheduling maintenance">>)
            /\ UNCHANGED road_projects
    /\ UNCHANGED <<company_name, design_plans, housing_projects,
                   total_workers, active_projects, clock, created, held>>

RoadProject_complete_project(r) ==
    /\ r \in DOMAIN road_projects
    /\ \E t \in 1..MaxTime :
        /\ Now(t)
        /\ road_projects' = [road_projects EXCEPT
                ![r].status = "completed",
                ![r].completion_date = t]
        /\ ret' = Str(<<"Road project ", road_projects[r].road_name,
                        " completed on ", strftime_date(t)>>)
    /\ call' = Call("complete_project", "road", r, <<>>)
    /\ UNCHANGED <<company_name, design_plans, housing_projects,
                   total_workers, active_projects, created, held>>

RoadProject_get_project_info_of(r) ==
    [project_id |-> road_projects[r].project_id,
     name |-> road_projects[r].road_name,
     type |-> road_projects[r].road_type,
     length_km |-> road_projects[r].length_km,
     lanes |-> road_projects[r].lanes,
     surface |-> road_projects[r].surface_type,
     status |-> road_projects[r].status,
     workers |-> road_projects[r].workers_assigned,
     equipment_count |-> Len(road_projects[r].equipment),
     has_design_plan |-> road_projects[r].design_plan # None]

RoadProject_get_project_info(r) ==
    /\ r \in DOMAIN road_projects
    /\ call' = Call("get_project_info", "road", r, <<>>)
    /\ ret' = Dict(RoadProject_get_project_info_of(r))
    /\ UNCHANGED <<registry, clock, created, held>>

\* ------------------------------------------------------------------ ConstructionCompany
ConstructionCompany_init ==
    /\ company_name \in CompanyNames
    /\ design_plans = <<>>
    /\ housing_projects = <<>>
    /\ road_projects = <<>>
    /\ total_workers = 0
    /\ active_projects = 0

\* Fault: the new plan is put at the front of the list (insert(0, plan)).
create_design_plan_prepend ==
    /\ \E plan \in PlanInputs, description \in Descriptions,
          area_sqft \in Areas, estimated_cost \in Costs, t \in 1..MaxTime :
        /\ Now(t)
        /\ design_plans' = <<DesignPlan_init(plan[1], plan[2], description, area_sqft,
                                             estimated_cost, t)>> \o design_plans
        /\ call' = Call("create_design_plan", "company", 0,
                        <<plan[1], plan[2], description, str(area_sqft),
                          str(estimated_cost)>>)
        /\ ret' = [kind |-> "DesignPlan", val |-> 1]
        /\ created' = [created EXCEPT !.design_plans = Append(@, plan[1])]
    /\ UNCHANGED <<company_name, housing_projects, road_projects,
                   total_workers, active_projects, held>>

create_design_plan ==
    /\ \E plan \in PlanInputs, description \in Descriptions,
          area_sqft \in Areas, estimated_cost \in Costs, t \in 1..MaxTime :
        /\ Now(t)
        /\ design_plans' = Append(design_plans,
               DesignPlan_init(plan[1], plan[2], description, area_sqft,
                               estimated_cost, t))
        /\ call' = Call("create_design_plan", "company", 0,
                        <<plan[1], plan[2], description, str(area_sqft),
                          str(estimated_cost)>>)
        /\ ret' = [kind |-> "DesignPlan", val |-> Len(design_plans) + 1]
        /\ created' = [created EXCEPT !.design_plans = Append(@, plan[1])]
    /\ UNCHANGED <<company_name, housing_projects, road_projects,
                   total_workers, active_projects, held>>

create_housing_project ==
    /\ \E project_id \in HousingIds, project_name \in HousingNames,
          housing_type \in HousingTypes, num_units \in UnitCounts :
        /\ housing_projects' = Append(housing_projects,
               HousingProject_init(project_id, project_name, housing_type, num_units))
        /\ call' = Call("create_housing_project", "company", 0,
                        <<project_id, project_name, housing_type, str(num_units)>>)
        /\ ret' = [kind |-> "HousingProject", val |-> Len(housing_projects) + 1]
        /\ created' = [created EXCEPT !.housing_projects = Append(@, project_id)]
    /\ UNCHANGED <<company_name, design_plans, road_projects,
                   total_workers, active_projects, clock, held>>

create_road_project ==
    /\ \E project_id \in RoadIds, road_name \in RoadNames,
          road_type \in RoadTypes, length_km \in Lengths :
        /\ road_projects' = Append(road_projects,
               RoadProject_init(project_id, road_name, road_type, length_km))
        /\ call' = Call("create_road_project", "company", 0,
                        <<project_id, road_name, road_type, str(length_km)>>)
        /\ ret' = [kind |-> "RoadProject", val |-> Len(road_projects) + 1]
        /\ created' = [created EXCEPT !.road_projects = Append(@, project_id)]
    /\ UNCHANGED <<company_name, design_plans, housing_projects,
                   total_workers, active_projects, clock, held>>

\* Fault: every project that has left 'planned' is counted as active.
CountInProgress_started(projects) ==
    Cardinality({i \in DOMAIN projects : projects[i].status # "planned"})

\* sum(1 for p in projects if p.status == 'in_progress'): a scan of the list.
RECURSIVE CountInProgress(_)
CountInProgress(projects) ==
    IF projects = <<>> THEN 0
    ELSE (IF Head(projects).status = "in_progress" THEN 1 ELSE 0)
         + CountInProgress(Tail(projects))

get_all_projects_of ==
    [company_name |-> company_name,
     total_housing_projects |-> Len(housing_projects),
     total_road_projects |-> Len(road_projects),
     total_design_plans |-> Len(design_plans),
     active_housing_projects |-> CountInProgress(housing_projects),
     active_road_projects |-> CountInProgress(road_projects),
     total_active_projects |-> CountInProgress(housing_projects)
                               + CountInProgress(road_projects)]

\* Fault: get_all_projects stores the count of active projects in the
\* registry's active_projects field.
get_all_projects_counting ==
    /\ call' = Call("get_all_projects", "company", 0, <<>>)
    /\ ret' = Dict(get_all_projects_of)
    /\ active_projects' = get_all_projects_of.total_active_projects
    /\ UNCHANGED <<company_name, design_plans, housing_projects, road_projects,
                   total_workers, clock, created, held>>

get_all_projects ==
    /\ call' = Call("get_all_projects", "company", 0, <<>>)
    /\ ret' = Dict(get_all_projects_of)
    /\ UNCHANGED <<registry, clock, created, held>>

\* [f(x) for x in xs], given the positions of xs.
\* Fault: the registry keeps a copy taken at creation, so the listing shows
\* each housing project as it was created.
list_housing_projects_stale ==
    [i \in 1..Len(housing_projects) |->
        [HousingProject_get_project_info_of(i) EXCEPT
            !.status = "planned", !.workers = 0, !.materials_count = 0,
            !.has_design_plan = FALSE]]
list_housing_projects_of ==
    [i \in 1..Len(housing_projects) |-> HousingProject_get_project_info_of(i)]
list_road_projects_of ==
    [i \in 1..Len(road_projects) |-> RoadProject_get_project_info_of(i)]
\* Fault: the plans are listed newest first.
list_design_plans_reversed ==
    [i \in 1..Len(design_plans) |-> get_details_of(Len(design_plans) + 1 - i)]
list_design_plans_of ==
    [i \in 1..Len(design_plans) |-> get_details_of(i)]

list_housing_projects ==
    /\ call' = Call("list_housing_projects", "company", 0, <<>>)
    /\ ret' = List(list_housing_projects_of)
    /\ UNCHANGED <<registry, clock, created, held>>

list_road_projects ==
    /\ call' = Call("list_road_projects", "company", 0, <<>>)
    /\ ret' = List(list_road_projects_of)
    /\ UNCHANGED <<registry, clock, created, held>>

list_design_plans ==
    /\ call' = Call("list_design_plans", "company", 0, <<>>)
    /\ ret' = List(list_design_plans_of)
    /\ UNCHANGED <<registry, clock, created, held>>

\* str.upper() on the company names in use.
upper(s) ==
    CASE s = "Premier Construction Ltd." -> "PREMIER CONSTRUCTION LTD."
      [] OTHER -> s

RECURSIVE HousingLines(_)
HousingLines(i) ==
    IF i > Len(housing_projects) THEN <<>>
    ELSE <<"  - ", HousingProject_get_project_info_of(i).name, " (",
           HousingProject_get_project_info_of(i).type, "): ",
           HousingProject_get_project_info_of(i).status, "\n">>
         \o HousingLines(i + 1)

RECURSIVE RoadLines(_)
RoadLines(i) ==
    IF i > Len(road_projects) THEN <<>>
    ELSE <<"  - ", RoadProject_get_project_info_of(i).name, " (",
           RoadProject_get_project_info_of(i).type, ", ",
           str(RoadProject_get_project_info_of(i).length_km), "km): ",
           RoadProject_get_project_info_of(i).status, "\n">>
         \o RoadLines(i + 1)

\* The report text; "=*60" stands for the banner line '='*60 and the footer
\* carries the clock reading to the second.
generate_report_of(t) ==
    <<"\n", "=*60", "\n", upper(company_name), " - CONSTRUCTION COMPANY REPORT\n",
      "=*60", "\n\nSUMMARY:\n--------\n",
      "Total Housing Projects: ", str(get_all_projects_of.total_housing_projects), "\n",
      "Total Road Projects: ", str(get_all_projects_of.total_road_projects), "\n",
      "Total Design Plans: ", str(get_all_projects_of.total_design_plans), "\n",
      "Active Projects: ", str(get_all_projects_of.total_active_projects), "\n",
      "\nHOUSING PROJECTS:\n----------------\n">>
    \o HousingLines(1)
    \o <<"\nROAD PROJECTS:\n-------------\n">>
    \o RoadLines(1)
    \o <<"\n", "=*60", "\n", "Generated on: ", str(t), "\n", "=*60", "\n">>

generate_report ==
    /\ \E t \in 1..MaxTime :
        /\ Now(t)
        /\ ret' = Str(generate_report_of(t))
    /\ call' = Call("generate_report", "company", 0, <<>>)
    /\ UNCHANGED <<registry, created, held>>

Init ==
    /\ ConstructionCompany_init
    /\ clock = 1
    /\ call = Call("__init__", "company", 0, <<>>)
    /\ ret = NoneRet
    /\ created = [design_plans |-> <<>>, housing_projects |-> <<>>,
                  road_projects |-> <<>>]
    /\ held = NoneRet

\* The registry's lists and the projects' line-item lists are unbounded in
\* the code; the explored calls stop at the bounds.
RoomForPlan == Len(design_plans) < MaxPlans /\ Entities < MaxEntities
RoomForHousing == Len(housing_projects) < MaxHousing /\ Entities < MaxEntities
RoomForRoad == Len(road_projects) < MaxRoads /\ Entities < MaxEntities
RoomForMaterials(h) ==
    h \in DOMAIN housing_projects /\ Len(housing_projects[h].materials) < MaxItems
RoomForEquipment(r) ==
    r \in DOMAIN road_projects /\ Len(road_projects[r].equipment) < MaxItems

Next ==
    \/ RoomForPlan /\ create_design_plan
    \/ RoomForHousing /\ create_housing_project
    \/ RoomForRoad /\ create_road_project
    \/ \E p \in 1..MaxPlans : approve_plan(p)
    \/ \E p \in 1..MaxPlans, key \in SpecKeys, value \in SpecValues :
            add_specification(p, key, value)
    \/ \E p \in 1..MaxPlans : get_details(p)
    \/ \E h \in 1..MaxHousing, p \in 1..MaxPlans : HousingProject_assign_design_plan(h, p)
    \/ \E h \in 1..MaxHousing, workers \in WorkerCounts :
            HousingProject_start_construction(h, workers)
    \/ \E h \in 1..MaxHousing, material \in MaterialNames, quantity \in Quantities,
          unit \in Units :
            RoomForMaterials(h) /\ add_materials(h, material, quantity, unit)
    \/ \E h \in 1..MaxHousing : HousingProject_complete_project(h)
    \/ \E h \in 1..MaxHousing : HousingProject_get_project_info(h)
    \/ \E r \in 1..MaxRoads, p \in 1..MaxPlans : RoadProject_assign_design_plan(r, p)
    \/ \E r \in 1..MaxRoads, lanes \in LaneCounts, surface_type \in SurfaceTypes :
            set_road_specs(r, lanes, surface_type)
    \/ \E r \in 1..MaxRoads, workers \in WorkerCounts :
            RoadProject_start_construction(r, workers)
    \/ \E r \in 1..MaxRoads, equipment_name \in EquipmentNames, quantity \in Quantities :
            RoomForEquipment(r) /\ add_equipment(r, equipment_name, quantity)
    \/ \E r \in 1..MaxRoads : schedule_maintenance(r)
    \/ \E r \in 1..MaxRoads : RoadProject_complete_project(r)
    \/ \E r \in 1..MaxRoads : RoadProject_get_project_info(r)
    \/ get_all_projects
    \/ list_housing_projects
    \/ list_road_projects
    \/ list_design_plans
    \/ generate_report

Spec == Init /\ [][Next]_vars

\* ------------------------------------------------------------------ callers
\* details = plan.get_details(): the caller keeps the dict the call just
\* returned.
keep_details ==
    /\ call.op = "get_details"
    /\ held # ret
    /\ held' = ret
    /\ UNCHANGED <<registry, clock, call, ret, created>>

\* What a dict returned by get_details shows when it is read: the entries
\* copied at the call, and whatever the referenced specifications dict holds
\* at the time of the read.
Shown(details) ==
    [details.val EXCEPT !.specifications = design_plans[@.ref].specifications]

\* A caller of the DesignPlan methods that keeps get_details() results.
NextDetails ==
    \/ RoomForPlan /\ create_design_plan
    \/ \E p \in 1..MaxPlans : approve_plan(p)
    \/ \E p \in 1..MaxPlans, key \in SpecKeys, value \in SpecValues :
            add_specification(p, key, value)
    \/ \E p \in 1..MaxPlans : get_details(p)
    \/ keep_details

SpecDetails == Init /\ [][NextDetails]_vars

\* The project methods with longer line-item lists: at most MaxItemEntities
\* entities, each project with up to MaxLineItems materials or equipment
\* lines drawn from two names.
NextItems ==
    \/ RoomForPlan /\ Entities < MaxItemEntities /\ create_design_plan
    \/ RoomForHousing /\ Entities < MaxItemEntities /\ create_housing_project
    \/ RoomForRoad /\ Entities < MaxItemEntities /\ create_road_project
    \/ \E p \in 1..MaxPlans : approve_plan(p)
    \/ \E h \in 1..MaxHousing, p \in 1..MaxPlans : HousingProject_assign_design_plan(h, p)
    \/ \E h \in 1..MaxHousing, workers \in WorkerCounts :
            HousingProject_start_construction(h, workers)
    \/ \E h \in 1..MaxHousing, material \in LineMaterials, quantity \in Quantities,
          unit \in Units :
            /\ h \in DOMAIN housing_projects
            /\ Len(housing_projects[h].materials) < MaxLineItems
            /\ add_materials(h, material, quantity, unit)
    \/ \E h \in 1..MaxHousing : HousingProject_complete_project(h)
    \/ \E h \in 1..MaxHousing : HousingProject_get_project_info(h)
    \/ \E r \in 1..MaxRoads, p \in 1..MaxPlans : RoadProject_assign_design_plan(r, p)
    \/ \E r \in 1..MaxRoads, workers \in WorkerCounts :
            RoadProject_start_construction(r, workers)
    \/ \E r \in 1..MaxRoads, equipment_name \in LineEquipment, quantity \in Quantities :
            /\ r \in DOMAIN road_projects
            /\ Len(road_projects[r].equipment) < MaxLineItems
            /\ add_equipment(r, equipment_name, quantity)
    \/ \E r \in 1..MaxRoads : schedule_maintenance(r)
    \/ \E r \in 1..MaxRoads : RoadProject_complete_project(r)
    \/ \E r \in 1..MaxRoads : RoadProject_get_project_info(r)

SpecItems == Init /\ [][NextItems]_vars

\* Several projects of one class under the same plan: at most
\* MaxSharedPlans plans and MaxSharers projects of each class, MaxEntities
\* entities in all.
NextShared ==
    \/ /\ Len(design_plans) < MaxSharedPlans /\ Entities < MaxEntities
       /\ create_design_plan
    \/ /\ Len(housing_projects) < MaxSharers /\ Entities < MaxEntities
       /\ create_housing_project
    \/ /\ Len(road_projects) < MaxSharers /\ Entities < MaxEntities
       /\ create_road_project
    \/ \E p \in 1..MaxSharedPlans : approve_plan(p)
    \/ \E p \in 1..MaxSharedPlans, key \in SpecKeys, value \in SpecValues :
            add_specification(p, key, value)
    \/ \E h \in 1..MaxSharers, p \in 1..MaxSharedPlans :
            HousingProject_assign_design_plan(h, p)
    \/ \E h \in 1..MaxSharers, workers \in WorkerCounts :
            HousingProject_start_construction(h, workers)
    \/ \E h \in 1..MaxSharers, material \in MaterialNames, quantity \in Quantities,
          unit \in Units :
            RoomForMaterials(h) /\ add_materials(h, material, quantity, unit)
    \/ \E h \in 1..MaxSharers : HousingProject_complete_project(h)
    \/ \E r \in 1..MaxSharers, p \in 1..MaxSharedPlans :
            RoadProject_assign_design_plan(r, p)
    \/ \E r \in 1..MaxSharers, lanes \in LaneCounts, surface_type \in SurfaceTypes :
            set_road_specs(r, lanes, surface_type)
    \/ \E r \in 1..MaxSharers, workers \in WorkerCounts :
            RoadProject_start_construction(r, workers)
    \/ \E r \in 1..MaxSharers, equipment_name \in EquipmentNames, quantity \in Quantities :
            RoomForEquipment(r) /\ add_equipment(r, equipment_name, quantity)
    \/ \E r \in 1..MaxSharers : schedule_maintenance(r)
    \/ \E r \in 1..MaxSharers : RoadProject_complete_project(r)

SpecShared == Init /\ [][NextShared]_vars

\* ------------------------------------------------------------------ properties
\* The plan type each project class accepts, and the registry's list of each
\* class before and after a step.
ExpectedType(kind) == IF kind = "housing" THEN "housing" ELSE "road"
ProjectsOf(kind) == IF kind = "housing" THEN housing_projects ELSE road_projects
ProjectsOfNext(kind) == IF kind = "housing" THEN housing_projects' ELSE road_projects'

\* C1: on either project class and in every reachable state,
\* assign_design_plan(p) succeeds (returns no error and leaves p as the
\* project's design_plan) exactly when p is approved and of the class's type;
\* otherwise it returns an error and the reference stays as it was.  Neither
\* the status nor the plan held before enters the condition.
C1_AssignSucceedsIff ==
    [][call'.op = "assign_design_plan" =>
        LET k == call'.kind
            i == call'.self
            p == call'.args[1]
            ok == design_plans[p].approved
                  /\ design_plans[p].plan_type = ExpectedType(k)
        IN  /\ ok => (~IsError(ret') /\ ProjectsOfNext(k)[i].design_plan = p)
            /\ ~ok => (IsError(ret')
                       /\ ProjectsOfNext(k)[i].design_plan = ProjectsOf(k)[i].design_plan)
    ]_vars

\* C1 witness: a plan is assigned to a road project that is already under
\* construction (so it held a plan before).
C1_Witness ==
    /\ call.op = "assign_design_plan" /\ call.kind = "road"
    /\ ~IsError(ret)
    /\ road_projects[call.self].status = "in_progress"
    /\ road_projects[call.self].design_plan = call.args[1]

\* C2: assign_design_plan with a plan of another type than the project class
\* accepts, approved or not, returns an error and leaves design_plan as it was.
C2_WrongTypeRejected ==
    [][(/\ call'.op = "assign_design_plan"
        /\ design_plans[call'.args[1]].plan_type # ExpectedType(call'.kind))
       => /\ IsError(ret')
          /\ ProjectsOfNext(call'.kind)[call'.self].design_plan
                = ProjectsOf(call'.kind)[call'.self].design_plan
    ]_vars

\* C2 witness: an approved road plan was refused by a housing project that
\* still holds the plan assigned to it earlier.
C2_Witness ==
    /\ call.op = "assign_design_plan" /\ call.kind = "housing"
    /\ IsError(ret)
    /\ design_plans[call.args[1]].plan_type = "road"
    /\ design_plans[call.args[1]].approved
    /\ housing_projects[call.self].design_plan \notin {None, call.args[1]}

\* C3: start_construction(n) succeeds exactly when the project holds a design
\* plan and that plan is approved; after a success the status is in_progress,
\* workers_assigned is n and start_date is set.
C3_StartSucceedsIff ==
    [][call'.op = "start_construction" =>
        LET before == ProjectsOf(call'.kind)[call'.self]
            after == ProjectsOfNext(call'.kind)[call'.self]
            ok == /\ before.design_plan # None
                  /\ design_plans[before.design_plan].approved
        IN  /\ ~IsError(ret') <=> ok
            /\ ok => /\ after.status = "in_progress"
                     /\ after.workers_assigned = call'.args[1]
                     /\ after.start_date # None
    ]_vars

\* C3 witness: construction of a housing project started with 25 workers.
C3_Witness ==
    /\ call.op = "start_construction" /\ call.kind = "housing"
    /\ call.args[1] = 25
    /\ ~IsError(ret)
    /\ housing_projects[call.self].status = "in_progress"
    /\ housing_projects[call.self].workers_assigned = 25

\* C4: schedule_maintenance succeeds exactly when the road's status is
\* 'completed' at the call and then leaves it 'maintenance'; a second call
\* right after a successful one fails.
C4_MaintenanceIffCompleted ==
    [][call'.op = "schedule_maintenance" =>
        /\ ~IsError(ret') <=> road_projects[call'.self].status = "completed"
        /\ ~IsError(ret') => road_projects'[call'.self].status = "maintenance"
        /\ (call.op = "schedule_maintenance" /\ call.self = call'.self /\ ~IsError(ret))
           => IsError(ret')
    ]_vars

\* C4 witness: schedule_maintenance has just failed on a road that is in
\* maintenance.
C4_Witness ==
    /\ call.op = "schedule_maintenance"
    /\ IsError(ret)
    /\ road_projects[call.self].status = "maintenance"

\* C5: a plan is created unapproved, and no step takes an approved plan back
\* to unapproved.
C5_ApprovedMonotonic ==
    [][/\ \A p \in DOMAIN design_plans :
            design_plans[p].approved
            => (p \in DOMAIN design_plans' /\ design_plans'[p].approved)
       /\ \A p \in (DOMAIN design_plans') \ (DOMAIN design_plans) :
            ~design_plans'[p].approved
    ]_vars

\* C5 witness: a plan approved long ago: a project was assigned it, built
\* and completed, and the plan was approved again after that.
C5_Witness ==
    /\ call.op = "approve_plan"
    /\ \E h \in DOMAIN housing_projects :
        /\ housing_projects[h].design_plan = call.self
        /\ housing_projects[h].status = "completed"
        /\ housing_projects[h].start_date # None
    /\ design_plans[call.self].approved

\* C6: approve_plan leaves the plan approved, and a call on a plan that is
\* already approved changes no field of that plan (the state after two or
\* more calls is the state after one); no call changes another plan.
C6_ApproveIdempotent ==
    [][call'.op = "approve_plan" =>
        /\ design_plans'[call'.self].approved
        /\ design_plans[call'.self].approved
           => design_plans'[call'.self] = design_plans[call'.self]
        /\ design_plans'[call'.self] =
              [design_plans[call'.self] EXCEPT !.approved = TRUE]
        /\ \A q \in DOMAIN design_plans :
              q # call'.self => design_plans'[q] = design_plans[q]
    ]_vars

\* C6 witness: approve_plan was called, at a later clock reading than the
\* plan's creation, on a plan that a project already holds, so that the plan
\* had been approved before.
C6_Witness ==
    /\ call.op = "approve_plan"
    /\ clock > design_plans[call.self].created_date
    /\ \E r \in DOMAIN road_projects : road_projects[r].design_plan = call.self

\* C7: a failing assign_design_plan, start_construction or
\* schedule_maintenance (one that returns an error string) leaves every field
\* of every project, of every plan and of the registry as it was.
C7_FailureChangesNothing ==
    [][(/\ call'.op \in {"assign_design_plan", "start_construction",
                         "schedule_maintenance"}
        /\ IsError(ret'))
       => registry' = registry
    ]_vars

\* C7 witness: start_construction failed on a housing project that carries
\* a material line and was completed without ever being started.
C7_Witness ==
    /\ call.op = "start_construction" /\ call.kind = "housing"
    /\ call.args[1] = 25
    /\ IsError(ret)
    /\ housing_projects[call.self].materials # <<>>
    /\ housing_projects[call.self].status = "completed"
    /\ housing_projects[call.self].workers_assigned = 0

C9_ListDesignPlans ==
    call.op = "list_design_plans" =>
        /\ Len(ret.val) = Len(created.design_plans)
        /\ \A i \in 1..Len(created.design_plans) :
            /\ ret.val[i].plan_id = created.design_plans[i]
            /\ ret.val[i].approved = design_plans[i].approved
            /\ ret.val[i].type = design_plans[i].plan_type

\* C9 witness: a listing of two plans with different identifiers, the first
\* unapproved and the second approved.
C9_Witness ==
    /\ call.op = "list_design_plans"
    /\ Len(ret.val) = 2
    /\ ret.val[1].plan_id # ret.val[2].plan_id
    /\ ~ret.val[1].approved
    /\ ret.val[2].approved

\* The order of the stages of a project.
StatusRank(status) ==
    CASE status = "planned" -> 0
      [] status = "in_progress" -> 1
      [] status = "completed" -> 2
      [] status = "maintenance" -> 3

\* C10: the status of a project never moves to an earlier stage of
\* planned < in_progress < completed < maintenance.
C10_StatusForwardOnly ==
    [][/\ \A h \in DOMAIN housing_projects :
            StatusRank(housing_projects'[h].status)
                >= StatusRank(housing_projects[h].status)
       /\ \A r \in DOMAIN road_projects :
            StatusRank(road_projects'[r].status)
                >= StatusRank(road_projects[r].status)
    ]_vars

\* C11: a road project enters 'maintenance' only by a step from 'completed'
\* (never from 'planned' or 'in_progress'), and a housing project never has
\* the status 'maintenance'.
C11_MaintenanceOnlyFromCompleted ==
    [][/\ \A r \in DOMAIN road_projects :
            (/\ road_projects'[r].status = "maintenance"
             /\ road_projects[r].status # "maintenance")
            => road_projects[r].status = "completed"
       /\ \A r \in (DOMAIN road_projects') \ (DOMAIN road_projects) :
            road_projects'[r].status # "maintenance"
       /\ \A h \in DOMAIN housing_projects' :
            housing_projects'[h].status # "maintenance"
    ]_vars

\* C11 witness: a road that was built (started, completed) has just been put
\* into maintenance.
C11_Witness ==
    /\ call.op = "schedule_maintenance"
    /\ ~IsError(ret)
    /\ road_projects[call.self].status = "maintenance"
    /\ road_projects[call.self].start_date # None

\* C12: once a road project's status is 'maintenance', no operation changes
\* it to another value.
C12_MaintenanceIsTerminal ==
    [][\A r \in DOMAIN road_projects :
            road_projects[r].status = "maintenance"
            => road_projects'[r].status = "maintenance"
    ]_vars

\* C13: in every reachable state each project's design_plan is unset or
\* refers to one plan of the registry that is approved and of the project
\* class's type.
C13_AssignedPlanValid ==
    /\ \A h \in DOMAIN housing_projects :
        housing_projects[h].design_plan # None
        => /\ housing_projects[h].design_plan \in DOMAIN design_plans
           /\ design_plans[housing_projects[h].design_plan].approved
           /\ design_plans[housing_projects[h].design_plan].plan_type = "housing"
    /\ \A r \in DOMAIN road_projects :
        road_projects[r].design_plan # None
        => /\ road_projects[r].design_plan \in DOMAIN design_plans
           /\ design_plans[road_projects[r].design_plan].approved
           /\ design_plans[road_projects[r].design_plan].plan_type = "road"

\* C13 witness: a road project holds the second plan while the first plan,
\* approved, is of another type and an assignment of it was just refused.
C13_Witness ==
    /\ call.op = "assign_design_plan" /\ call.kind = "road"
    /\ call.args[1] = 1
    /\ IsError(ret)
    /\ design_plans[1].approved
    /\ road_projects[call.self].design_plan = 2

\* The fields of an entity that no method writes (its identity).
PlanIdentity(plan) == <<plan.plan_id, plan.plan_type, plan.created_date>>
HousingIdentity(project) == <<project.project_id, project.project_name>>
RoadIdentity(project) == <<project.project_id, project.road_name>>

\* C14: the three collections are append-only: a create_* call appends one
\* entity at the end of its own collection and leaves the length of the other
\* two alone, no other call changes a length, and the entities already held
\* keep their positions.
C14_AppendOnly ==
    [][/\ Len(design_plans') = Len(design_plans)
            + (IF call'.op = "create_design_plan" THEN 1 ELSE 0)
       /\ Len(housing_projects') = Len(housing_projects)
            + (IF call'.op = "create_housing_project" THEN 1 ELSE 0)
       /\ Len(road_projects') = Len(road_projects)
            + (IF call'.op = "create_road_project" THEN 1 ELSE 0)
       /\ \A p \in DOMAIN design_plans :
            PlanIdentity(design_plans'[p]) = PlanIdentity(design_plans[p])
       /\ \A h \in DOMAIN housing_projects :
            HousingIdentity(housing_projects'[h]) = HousingIdentity(housing_projects[h])
       /\ \A r \in DOMAIN road_projects :
            RoadIdentity(road_projects'[r]) = RoadIdentity(road_projects[r])
       /\ call'.op = "create_design_plan"
            => design_plans'[Len(design_plans')].plan_id = call'.args[1]
       /\ call'.op = "create_housing_project"
            => housing_projects'[Len(housing_projects')].project_id = call'.args[1]
       /\ call'.op = "create_road_project"
            => road_projects'[Len(road_projects')].project_id = call'.args[1]
    ]_vars

\* C14 witness: a second plan, with another identifier, was appended after
\* the first plan had been approved and given a specification.
C14_Witness ==
    /\ call.op = "create_design_plan"
    /\ Len(design_plans) = 2
    /\ design_plans[1].plan_id # design_plans[2].plan_id
    /\ design_plans[2].plan_id = call.args[1]
    /\ design_plans[1].approved
    /\ design_plans[1].specifications # <<>>
    /\ housing_projects # <<>>

\* C15: the reference a create_* factory returns is the entity the registry
\* holds (the last of its collection, with the identifier asked for), and
\* what is done to an entity afterwards shows in the next listing and summary:
\* every snapshot carries the live fields of the entity at its position.
C15_SharedReference ==
    /\ call.op = "create_design_plan"
        => /\ ret.kind = "DesignPlan" /\ ret.val = Len(design_plans)
           /\ design_plans[ret.val].plan_id = call.args[1]
    /\ call.op = "create_housing_project"
        => /\ ret.kind = "HousingProject" /\ ret.val = Len(housing_projects)
           /\ housing_projects[ret.val].project_id = call.args[1]
    /\ call.op = "create_road_project"
        => /\ ret.kind = "RoadProject" /\ ret.val = Len(road_projects)
           /\ road_projects[ret.val].project_id = call.args[1]
    /\ call.op = "list_design_plans"
        => /\ DOMAIN ret.val = DOMAIN design_plans
           /\ \A i \in DOMAIN design_plans :
                /\ ret.val[i].approved = design_plans[i].approved
                /\ design_plans[ret.val[i].specifications.ref].specifications
                      = design_plans[i].specifications
    /\ call.op = "list_housing_projects"
        => /\ DOMAIN ret.val = DOMAIN housing_projects
           /\ \A i \in DOMAIN housing_projects :
                /\ ret.val[i].status = housing_projects[i].status
                /\ ret.val[i].workers = housing_projects[i].workers_assigned
                /\ ret.val[i].materials_count = Len(housing_projects[i].materials)
                /\ ret.val[i].has_design_plan
                      = (housing_projects[i].design_plan # None)
    /\ call.op = "list_road_projects"
        => /\ DOMAIN ret.val = DOMAIN road_projects
           /\ \A i \in DOMAIN road_projects :
                /\ ret.val[i].status = road_projects[i].status
                /\ ret.val[i].workers = road_projects[i].workers_assigned
                /\ ret.val[i].equipment_count = Len(road_projects[i].equipment)
                /\ ret.val[i].lanes = road_projects[i].lanes
                /\ ret.val[i].has_design_plan = (road_projects[i].design_plan # None)
    /\ call.op = "get_all_projects"
        => ret.val.total_active_projects =
              Cardinality({h \in DOMAIN housing_projects :
                              housing_projects[h].status = "in_progress"})
              + Cardinality({r \in DOMAIN road_projects :
                              road_projects[r].status = "in_progress"})

\* C15 witness: a listing that shows a housing project after a plan was
\* assigned to it, a material added, construction started with 25 workers
\* and the project completed.
C15_Witness ==
    /\ call.op = "list_housing_projects"
    /\ Len(ret.val) = 1
    /\ ret.val[1].status = "completed"
    /\ ret.val[1].workers = 25
    /\ ret.val[1].materials_count = 1
    /\ ret.val[1].has_design_plan

\* C16: no two plans of the registry's design-plan collection have the same
\* plan_id.
C16_UniquePlanIds ==
    \A p, q \in DOMAIN design_plans :
        design_plans[p].plan_id = design_plans[q].plan_id => p = q

\* C17: complete_project can be called on every project in every reachable
\* state, and from every status, with or without a design plan, it returns no
\* error, leaves the status 'completed' and completion_date set to the time of
\* the call, and changes no other field (start_date stays unset on a project
\* never started).
C17_CompleteUnconditional ==
    /\ [](/\ \A h \in DOMAIN housing_projects :
               ENABLED HousingProject_complete_project(h)
          /\ \A r \in DOMAIN road_projects :
               ENABLED RoadProject_complete_project(r))
    /\ [][call'.op = "complete_project" =>
            LET before == ProjectsOf(call'.kind)[call'.self]
                after == ProjectsOfNext(call'.kind)[call'.self]
            IN  /\ ~IsError(ret')
                /\ after.status = "completed"
                /\ after.completion_date # None
                /\ after.completion_date = clock'
                /\ after = [before EXCEPT !.status = "completed",
                                          !.completion_date = clock']
       ]_vars

\* C17 witness: a housing project with no plan, never started, was completed.
C17_Witness ==
    /\ call.op = "complete_project" /\ call.kind = "housing"
    /\ ~IsError(ret)
    /\ housing_projects[call.self].status = "completed"
    /\ housing_projects[call.self].design_plan = None
    /\ housing_projects[call.self].start_date = None
    /\ housing_projects[call.self].completion_date # None

\* C18: start_construction(n) on a project that holds an approved plan and is
\* already 'in_progress', 'completed' or 'maintenance' succeeds again: the
\* status is 'in_progress', start_date is the time of this call,
\* workers_assigned is n, and completion_date is as it was.
C18_StartNotGuardedByStatus ==
    [][(/\ call'.op = "start_construction"
        /\ ProjectsOf(call'.kind)[call'.self].status # "planned"
        /\ ProjectsOf(call'.kind)[call'.self].design_plan # None
        /\ design_plans[ProjectsOf(call'.kind)[call'.self].design_plan].approved)
       => LET before == ProjectsOf(call'.kind)[call'.self]
              after == ProjectsOfNext(call'.kind)[call'.self]
          IN  /\ ~IsError(ret')
              /\ after.status = "in_progress"
              /\ after.start_date = clock'
              /\ after.workers_assigned = call'.args[1]
              /\ after.completion_date = before.completion_date
    ]_vars

\* C18 witness: a road completed at the first clock reading was started
\* (again) at the second, this time with no workers.
C18_Witness ==
    /\ call.op = "start_construction" /\ call.kind = "road"
    /\ ~IsError(ret)
    /\ road_projects[call.self].status = "in_progress"
    /\ road_projects[call.self].completion_date = 1
    /\ road_projects[call.self].start_date = 2
    /\ road_projects[call.self].workers_assigned = 0

\* C19: in every status, assign_design_plan with an approved plan of the
\* class's type puts that plan in place of the one held and changes no other
\* field of the project, nor any other project.
C19_ReassignReplacesPlanOnly ==
    [][(/\ call'.op = "assign_design_plan"
        /\ design_plans[call'.args[1]].approved
        /\ design_plans[call'.args[1]].plan_type = ExpectedType(call'.kind))
       => /\ ProjectsOfNext(call'.kind) =
                [ProjectsOf(call'.kind) EXCEPT ![call'.self].design_plan = call'.args[1]]
          /\ call'.kind = "housing" => road_projects' = road_projects
          /\ call'.kind = "road" => housing_projects' = housing_projects
          /\ design_plans' = design_plans
    ]_vars

\* C19 witness: a housing project that was started before the second plan
\* existed (so under the first plan) and then completed now holds the second
\* plan.
C19_Witness ==
    /\ call.op = "assign_design_plan" /\ call.kind = "housing"
    /\ ~IsError(ret)
    /\ call.args[1] = 2
    /\ housing_projects[call.self].design_plan = 2
    /\ housing_projects[call.self].status = "completed"
    /\ housing_projects[call.self].start_date # None
    /\ housing_projects[call.self].start_date < design_plans[2].created_date

\* C20: while a project's start_date is unset (no start_construction on it
\* has succeeded), its workers_assigned is 0.
C20_NoWorkersBeforeStart ==
    /\ \A h \in DOMAIN housing_projects :
        housing_projects[h].start_date = None
        => housing_projects[h].workers_assigned = 0
    /\ \A r \in DOMAIN road_projects :
        road_projects[r].start_date = None
        => road_projects[r].workers_assigned = 0

\* C20 witness: start_construction(25) has just failed on a housing project
\* that carries a material line and was completed without being started.
C20_Witness ==
    /\ call.op = "start_construction" /\ call.kind = "housing"
    /\ call.args[1] = 25
    /\ IsError(ret)
    /\ housing_projects[call.self].start_date = None
    /\ housing_projects[call.self].completion_date # None
    /\ housing_projects[call.self].materials # <<>>

\* C21: a dict returned by get_details keeps showing what it showed when the
\* call returned: as long as the caller keeps it, no later call (an
\* add_specification or approve_plan in particular) changes any entry read
\* from it, the 'specifications' and 'approved' entries included.
C21_DetailsAreSnapshot ==
    [][(held.kind = "dict" /\ held' = held) => Shown(held)' = Shown(held)]_vars

RegistryReads == {"get_all_projects", "list_housing_projects",
                  "list_road_projects", "list_design_plans", "generate_report"}

\* C22: get_all_projects, the three list_* calls and generate_report leave the
\* registry as it was: its name, its counters, its three collections and
\* every field of every plan and project in them.  A method of a plan or of a
\* project leaves the registry's own fields alone and changes no collection's
\* membership: the same entities at the same positions.
C22_ReadsArePure ==
    [][/\ call'.op \in RegistryReads => registry' = registry
       /\ call'.kind \in {"plan", "housing", "road"} =>
            /\ company_name' = company_name
            /\ total_workers' = total_workers
            /\ active_projects' = active_projects
            /\ [i \in DOMAIN design_plans' |-> PlanIdentity(design_plans'[i])]
                = [i \in DOMAIN design_plans |-> PlanIdentity(design_plans[i])]
            /\ [i \in DOMAIN housing_projects' |-> HousingIdentity(housing_projects'[i])]
                = [i \in DOMAIN housing_projects |-> HousingIdentity(housing_projects[i])]
            /\ [i \in DOMAIN road_projects' |-> RoadIdentity(road_projects'[i])]
                = [i \in DOMAIN road_projects |-> RoadIdentity(road_projects[i])]
    ]_vars

\* C22 witness: get_all_projects has just counted one project under
\* construction among one plan and two projects, and the registry's
\* active_projects field is still 0.
C22_Witness ==
    /\ call.op = "get_all_projects"
    /\ ret.val.total_active_projects = 1
    /\ ret.val.total_design_plans = 1
    /\ ret.val.total_housing_projects = 1
    /\ ret.val.total_road_projects = 1
    /\ active_projects = 0

\* C23: add_materials and add_equipment are accepted on every project in
\* every status and return no error; the call puts exactly one line, built
\* from its arguments, at the end of the project's list and changes nothing
\* else.  No other call changes a line-item list and a new project starts
\* with empty lists, so the length of the list is the number of add calls
\* made on the project so far and never decreases; get_project_info reports
\* that length as materials_count / equipment_count.
C23_LineItemsAppend ==
    /\ [](/\ \A h \in DOMAIN housing_projects :
                \A material \in LineMaterials, quantity \in Quantities, unit \in Units :
                    ENABLED add_materials(h, material, quantity, unit)
          /\ \A r \in DOMAIN road_projects :
                \A equipment_name \in LineEquipment, quantity \in Quantities :
                    ENABLED add_equipment(r, equipment_name, quantity))
    /\ [][ /\ call'.op = "add_materials" =>
                LET before == housing_projects[call'.self].materials
                    after == housing_projects'[call'.self].materials
                IN  /\ ~IsError(ret') /\ ret' = NoneRet
                    /\ Len(after) = Len(before) + 1
                    /\ SubSeq(after, 1, Len(before)) = before
                    /\ after[Len(after)].material = call'.args[1]
                    /\ str(after[Len(after)].quantity) = call'.args[2]
                    /\ after[Len(after)].unit = call'.args[3]
                    /\ housing_projects' =
                          [housing_projects EXCEPT ![call'.self].materials = after]
                    /\ UNCHANGED <<company_name, design_plans, road_projects,
                                   total_workers, active_projects>>
           /\ call'.op = "add_equipment" =>
                LET before == road_projects[call'.self].equipment
                    after == road_projects'[call'.self].equipment
                IN  /\ ~IsError(ret') /\ ret' = NoneRet
                    /\ Len(after) = Len(before) + 1
                    /\ SubSeq(after, 1, Len(before)) = before
                    /\ after[Len(after)].equipment = call'.args[1]
                    /\ str(after[Len(after)].quantity) = call'.args[2]
                    /\ road_projects' =
                          [road_projects EXCEPT ![call'.self].equipment = after]
                    /\ UNCHANGED <<company_name, design_plans, housing_projects,
                                   total_workers, active_projects>>
           /\ call'.op # "add_materials" =>
                \A h \in DOMAIN housing_projects' :
                    housing_projects'[h].materials =
                        IF h \in DOMAIN housing_projects
                        THEN housing_projects[h].materials ELSE <<>>
           /\ call'.op # "add_equipment" =>
                \A r \in DOMAIN road_projects' :
                    road_projects'[r].equipment =
                        IF r \in DOMAIN road_projects
                        THEN road_projects[r].equipment ELSE <<>>
           /\ (call'.op = "get_project_info" /\ call'.kind = "housing") =>
                ret'.val.materials_count = Len(housing_projects[call'.self].materials)
           /\ (call'.op = "get_project_info" /\ call'.kind = "road") =>
                ret'.val.equipment_count = Len(road_projects[call'.self].equipment)
      ]_vars

\* C23 witness: add_materials("cement", ...) has just put a second line
\* behind the "steel" line of a housing project that is under construction.
C23_Witness ==
    /\ call.op = "add_materials"
    /\ call.args[1] = "cement"
    /\ ret = NoneRet
    /\ housing_projects[call.self].status = "in_progress"
    /\ Len(housing_projects[call.self].materials) = 2
    /\ housing_projects[call.self].materials[1].material = "steel"
    /\ housing_projects[call.self].materials[2].material = "cement"

\* C24: assign_design_plan looks at the approval before the type: a plan that
\* is not approved gets 'Error: Design plan must be approved first' whatever
\* its type, one of the wrong type included; the error that names the plan's
\* type is returned only for an approved plan of the wrong type.
C24_ApprovalCheckedFirst ==
    [][call'.op = "assign_design_plan" =>
        LET plan == design_plans[call'.args[1]]
            NotApproved == Str(<<"Error: ", "Design plan must be approved first">>)
        IN  /\ ~plan.approved => ret' = NotApproved
            /\ (IsError(ret') /\ ret' # NotApproved) =>
                    /\ plan.approved
                    /\ plan.plan_type # ExpectedType(call'.kind)
                    /\ ret'.val[2] = "Design plan type '"
                    /\ ret'.val[3] = plan.plan_type
    ]_vars

\* C24 witness: a housing project was offered a road plan that is not
\* approved, and the answer is the approval error.
C24_Witness ==
    /\ call.op = "assign_design_plan" /\ call.kind = "housing"
    /\ design_plans[call.args[1]].plan_type = "road"
    /\ ~design_plans[call.args[1]].approved
    /\ ret = Str(<<"Error: ", "Design plan must be approved first">>)

\* C25: a project that holds a plan (an assign_design_plan on it succeeded)
\* holds a plan ever after, and the plan it holds is approved ever after; so
\* start_construction fails exactly on a project on which no
\* assign_design_plan has succeeded yet, and never because the plan held is
\* not approved.
C25_StartFailsOnlyWithoutPlan ==
    [][/\ \A kind \in {"housing", "road"} :
            \A i \in DOMAIN ProjectsOf(kind) :
                ProjectsOf(kind)[i].design_plan # None =>
                    /\ ProjectsOfNext(kind)[i].design_plan # None
                    /\ design_plans'[ProjectsOfNext(kind)[i].design_plan].approved
       /\ call'.op = "start_construction" =>
            (IsError(ret') <=> ProjectsOf(call'.kind)[call'.self].design_plan = None)
    ]_vars

\* C25 witness: a road that was completed at the first clock reading has
\* been started at the second, with success, under a plan that carries a
\* specification.
C25_Witness ==
    /\ call.op = "start_construction" /\ call.kind = "road"
    /\ ~IsError(ret)
    /\ road_projects[call.self].status = "in_progress"
    /\ road_projects[call.self].completion_date # None
    /\ road_projects[call.self].start_date > road_projects[call.self].completion_date
    /\ design_plans[road_projects[call.self].design_plan].specifications # <<>>

\* C26: the status agrees with the other fields: a project that is
\* in_progress holds a plan and has a start_date; one that is completed or
\* under maintenance has a completion_date; one that is planned has neither
\* date (no start_construction on it has succeeded and complete_project was
\* never called on it).  No call takes a project back to planned.
C26_StatusConsistent ==
    /\ [](\A kind \in {"housing", "road"} :
            \A i \in DOMAIN ProjectsOf(kind) :
                LET project == ProjectsOf(kind)[i]
                IN  /\ project.status = "in_progress" =>
                        project.design_plan # None /\ project.start_date # None
                    /\ project.status \in {"completed", "maintenance"} =>
                        project.completion_date # None
                    /\ project.status = "planned" =>
                        project.start_date = None /\ project.completion_date = None)
    /\ [][\A kind \in {"housing", "road"} :
            \A i \in DOMAIN ProjectsOf(kind) :
                ProjectsOf(kind)[i].status # "planned" =>
                    ProjectsOfNext(kind)[i].status # "planned"
      ]_vars

\* C26 witness: a road under maintenance with its completion date, next to a
\* housing project that holds a plan and is still planned, with neither date.
C26_Witness ==
    /\ road_projects # <<>> /\ housing_projects # <<>>
    /\ road_projects[1].status = "maintenance"
    /\ road_projects[1].completion_date # None
    /\ road_projects[1].start_date = None
    /\ housing_projects[1].status = "planned"
    /\ housing_projects[1].design_plan # None
    /\ housing_projects[1].start_date = None
    /\ housing_projects[1].completion_date = None

\* C27: a call on a project (assign_design_plan, start_construction,
\* complete_project, schedule_maintenance, set_road_specs, add_materials,
\* add_equipment) changes no plan (approved, plan_type, specifications and the
\* rest) and no field of any other project, of either class, also when
\* several projects hold the same plan.
C27_ProjectCallsAreLocal ==
    [][call'.kind \in {"housing", "road"} =>
        /\ design_plans' = design_plans
        /\ DOMAIN ProjectsOfNext(call'.kind) = DOMAIN ProjectsOf(call'.kind)
        /\ \A i \in DOMAIN ProjectsOf(call'.kind) \ {call'.self} :
                ProjectsOfNext(call'.kind)[i] = ProjectsOf(call'.kind)[i]
        /\ call'.kind = "housing" => road_projects' = road_projects
        /\ call'.kind = "road" => housing_projects' = housing_projects
    ]_vars

\* C27 witness: complete_project on one of two housing projects that hold the
\* same plan; the other one is still under construction and the plan still
\* carries its specification.
C27_Witness ==
    /\ call.op = "complete_project" /\ call.kind = "housing"
    /\ Len(housing_projects) = 2
    /\ housing_projects[call.self].status = "completed"
    /\ housing_projects[call.self].design_plan # None
    /\ housing_projects[3 - call.self].design_plan = housing_projects[call.self].design_plan
    /\ housing_projects[3 - call.self].status = "in_progress"
    /\ housing_projects[3 - call.self].completion_date = None
    /\ design_plans[housing_projects[call.self].design_plan].specifications # <<>>
====
